---- MODULE Spec2Model ----
(***************************************************************************)
(* State-machine model of the open-responses-server gateway:               *)
(*   POST /responses            (api_controller.create_response)           *)
(*   POST /v1/chat/completions  (chat_completions_service)                 *)
(* One request slot is modelled; requests share nothing but the registry   *)
(* cache (read-only for them), so a second slot adds no behaviour.  An     *)
(* action runs a handler from one suspension point (await / yield) to the  *)
(* next, which is the granularity of the asyncio event loop.               *)
(***************************************************************************)
EXTENDS Integers, Sequences, FiniteSets, TLC

\* ------------------------------------------------------------------ bounds
MaxTools == 2      \* client-declared tools per request
MaxChunks == 2     \* backend chunks consumed per stream

ToolNames == {"a", "b"}

SeqsUpTo(S, n) == UNION {[1..k -> S] : k \in 0..n}

NoDup(s) == \A i, j \in DOMAIN s : i # j => s[i] # s[j]

Range(s) == {s[i] : i \in DOMAIN s}

\* ------------------------------------------------------------- tool entries
\* A tool entry: its name, whose definition it is (the client's or the
\* registry's) and its JSON shape: flat {"type","name",..} (Responses API)
\* or nested {"type","function":{"name",..}} (Chat Completions API).
Entry(n, o, s) == [name |-> n, origin |-> o, shape |-> s]

Entries(names, o, s) == [i \in DOMAIN names |-> Entry(names[i], o, s)]

NamesOf(tools) == {tools[i].name : i \in DOMAIN tools}

\* tool.get("function", {}).get("name"): None for an entry without "function"
FunctionName(t) == IF t.shape = "nested" THEN t.name ELSE "None"

\* -------------------------------------------------------------- JSON bodies
\* One record shape for every JSON body handled: the inbound request, the
\* parsed request_data, chat_request and the body sent to the backend.
\* has_tools is the presence of the "tools" key; functions = <<>> is an absent
\* "functions" key; "absent" is an absent key.
NoBody ==
    [body_ok |-> FALSE, model |-> FALSE, has_tools |-> FALSE, tools |-> <<>>,
     functions |-> <<>>, stream |-> "absent", tool_choice |-> "absent",
     reasoning |-> "absent"]

ClientShape(ep) == IF ep = "responses" THEN "flat" ELSE "nested"

Requests(ep) ==
    {NoBody} \cup
    {[body_ok |-> TRUE, model |-> m, has_tools |-> h,
      tools |-> IF h THEN Entries(ns, "client", ClientShape(ep)) ELSE <<>>,
      functions |-> <<>>, stream |-> st, tool_choice |-> tc, reasoning |-> re] :
        m \in BOOLEAN, h \in BOOLEAN, ns \in SeqsUpTo(ToolNames, MaxTools),
        st \in {"absent", "false", "true"}, tc \in {"absent", "auto"},
        re \in {"absent", "allnull", "set"}}

\* request_data.get("stream", False), tested for truth
IsStream(b) == b.stream = "true"

\* A registry snapshot: the tool names of mcp_functions_cache, in order.  The
\* snapshot is a name-keyed mapping, so a name occurs once in it.
Snapshots == {s \in SeqsUpTo(ToolNames, Cardinality(ToolNames)) : NoDup(s)}

\* What the backend can answer: status 0 is "unreachable" (no response).
BackendResponses ==
    {[status |-> 0, body |-> "none"]} \cup
    {[status |-> s, body |-> "error_body"] : s \in {400, 503}} \cup
    {[status |-> 200, body |-> b] : b \in {"choices", "nochoices", "invalid"}}

NoBackend == [status |-> 0, body |-> "unset"]

NoClient == [status |-> 0, body |-> "none", carried |-> 0]

Frame(t, m) == [type |-> t, message |-> m]

VARIABLES
    ENABLE_MCP_TOOLS,      \* config.py flag, fixed for the process
    mcp_functions_cache,   \* the registry's published snapshot
    endpoint,              \* "responses" | "chat" | "none"
    pc,                    \* where the request's handler is suspended
    inbound,               \* the HTTP body as the client sent it
    request_data,          \* the parsed body, as the handler mutates it
    chat_request,          \* /responses: the translated backend request
    seen,                  \* snapshots read while building the tool list
    sent,                  \* the JSON body handed to the backend client
    backend_calls,         \* backend chat-completions calls issued
    backend,               \* what the backend answered
    client,                \* the HTTP response the client receives
    frames,                \* streaming: frames yielded to the client
    conn,                  \* backend stream: "none" | "open" | "closed"
    chunks,                \* backend chunks consumed
    failure,               \* a backend failure happened on this request
    disconnected           \* the client went away mid-stream

vars == <<ENABLE_MCP_TOOLS, mcp_functions_cache, endpoint, pc, inbound,
          request_data, chat_request, seen, sent, backend_calls, backend,
          client, frames, conn, chunks, failure, disconnected>>

config == <<ENABLE_MCP_TOOLS>>
buildVars == <<request_data, chat_request, seen>>
callVars == <<sent, backend_calls, backend>>
streamVars == <<frames, conn, chunks, disconnected>>

\* ------------------------------------------------------------ tool injection
McpInjectionNoFlag(mcp) == Len(mcp) > 0

\* `if mcp_manager.mcp_functions_cache and ENABLE_MCP_TOOLS`
McpInjection(mcp) == Len(mcp) > 0 /\ ENABLE_MCP_TOOLS

\* First pass of /responses: registry tools into request_data["tools"].
InjectRequestTools(rd, mcp) ==
    IF McpInjection(mcp)
    THEN LET existing_tools == IF rd.has_tools THEN rd.tools ELSE <<>>
             mcp_tools == Entries(mcp, "mcp", "flat")
             existing_tool_names == NamesOf(existing_tools)
             filtered_mcp_tools ==
                 SelectSeq(mcp_tools, LAMBDA t : t.name \notin existing_tool_names)
         IN [rd EXCEPT !.has_tools = TRUE,
                       !.tools = existing_tools \o filtered_mcp_tools]
    ELSE rd

\* Translator, request direction.  It rejects a request without `model`.
ConvertRejects(rd) == ~rd.model

\* Translator: flat tool entries become nested ones, in order; "tools" is set
\* only for a non-empty list; an all-null `reasoning` is stripped; the other
\* fields are carried over.
convert_responses_to_chat_completions(rd) ==
    [rd EXCEPT !.has_tools = rd.has_tools /\ Len(rd.tools) > 0,
               !.tools = [i \in DOMAIN rd.tools |-> [rd.tools[i] EXCEPT !.shape = "nested"]],
               !.functions = <<>>,
               !.reasoning = IF rd.reasoning = "allnull" THEN "absent" ELSE rd.reasoning]

\* `for func in existing_functions`: legacy functions become tools unless
\* their name is taken; each added name is taken from then on.
RECURSIVE ConvertFunctions(_, _, _)
ConvertFunctions(tools, names, funcs) ==
    IF funcs = <<>> THEN [tools |-> tools, names |-> names]
    ELSE LET func == Head(funcs)
         IN IF func.name \notin names
            THEN ConvertFunctions(Append(tools, [func EXCEPT !.shape = "nested"]),
                                  names \cup {func.name}, Tail(funcs))
            ELSE ConvertFunctions(tools, names, Tail(funcs))

\* Second pass of /responses: registry functions into chat_request["tools"].
InjectChatTools(cr, mcp) ==
    IF McpInjection(mcp)
    THEN LET tools0 == IF cr.has_tools THEN cr.tools ELSE <<>>
             withFuncs == ConvertFunctions(tools0, NamesOf(tools0), cr.functions)
             added == SelectSeq(Entries(mcp, "mcp", "nested"),
                                LAMBDA t : t.name \notin withFuncs.names)
         IN [cr EXCEPT !.has_tools = TRUE,
                       !.tools = withFuncs.tools \o added,
                       !.functions = <<>>]
    ELSE cr

KeepToolChoice(cr) == cr

RemoveToolChoiceIfNoTools(cr) ==
    IF cr.functions = <<>> /\ (~cr.has_tools \/ cr.tools = <<>>)
    THEN [cr EXCEPT !.tool_choice = "absent"]
    ELSE cr

\* `chat_request.pop("tool_choice", None)`, conditionally and then always.
RemoveToolChoice(cr) ==
    LET c1 == IF cr.functions = <<>> /\ (~cr.has_tools \/ cr.tools = <<>>)
              THEN [cr EXCEPT !.tool_choice = "absent"]
              ELSE cr
    IN [c1 EXCEPT !.tool_choice = "absent"]

\* /v1/chat/completions: registry tools into request_data["tools"].
ChatInjectTools(rd, mcp) ==
    IF McpInjection(mcp)
    THEN LET existing_tools == IF rd.has_tools THEN rd.tools ELSE <<>>
             existing_tool_names ==
                 {FunctionName(existing_tools[i]) : i \in DOMAIN existing_tools}
             added == SelectSeq(Entries(mcp, "mcp", "nested"),
                                LAMBDA t : t.name \notin existing_tool_names)
         IN [rd EXCEPT !.has_tools = TRUE, !.tools = existing_tools \o added]
    ELSE rd

\* ---------------------------------------------------------------------- Init
Init ==
    /\ ENABLE_MCP_TOOLS \in BOOLEAN
    /\ mcp_functions_cache \in Snapshots
    /\ endpoint = "none"
    /\ pc = "idle"
    /\ inbound = NoBody
    /\ request_data = NoBody
    /\ chat_request = NoBody
    /\ seen = <<>>
    /\ sent = NoBody
    /\ backend_calls = 0
    /\ backend = NoBackend
    /\ client = NoClient
    /\ frames = <<>>
    /\ conn = "none"
    /\ chunks = 0
    /\ failure = FALSE
    /\ disconnected = FALSE

\* The refresh loop publishes a snapshot built from scratch, in one assignment.
RefreshPublish ==
    /\ mcp_functions_cache' \in Snapshots
    /\ UNCHANGED <<config, endpoint, pc, inbound, buildVars, callVars, client,
                   streamVars, failure>>

\* A request arrives; the handler suspends at `await request.json()`.
Receive ==
    /\ pc = "idle"
    /\ \E ep \in {"responses", "chat"} :
         /\ endpoint' = ep
         /\ inbound' \in Requests(ep)
    /\ pc' = "received"
    /\ UNCHANGED <<config, mcp_functions_cache, buildVars, callVars, client,
                   streamVars, failure>>


\* ------------------------------------------------------- POST /responses
HTTPException(detail, carried) == [status |-> 500, body |-> detail, carried |-> carried]

ConvertIsAwaitedYes == TRUE

\* `chat_request = convert_responses_to_chat_completions(request_data)` is a
\* plain call: the handler does not suspend between the two injection passes.
ConvertIsAwaited == FALSE

\* From the return of `await request.json()` to the choice of the streaming or
\* non-streaming path: parse, first pass, translation, second pass, removal of
\* tool_choice.  The handler runs on from where it is suspended to its next
\* suspension point.
CreateResponseBuild ==
    /\ endpoint = "responses"
    /\ pc \in {"received", "converted"}
    /\ LET resumed == pc = "converted"
           rd == IF resumed THEN request_data
                 ELSE InjectRequestTools(inbound, mcp_functions_cache)
           cr == RemoveToolChoice(
                     InjectChatTools(convert_responses_to_chat_completions(rd),
                                     mcp_functions_cache))
       IN IF ~resumed /\ ~inbound.body_ok
          THEN \* request.json() raises: the outer `except Exception`
               /\ client' = HTTPException("Error processing request", 0)
               /\ pc' = "done"
               /\ UNCHANGED buildVars
          ELSE IF ~resumed /\ ConvertRejects(rd)
          THEN /\ client' = HTTPException("Error processing request", 0)
               /\ pc' = "done"
               /\ request_data' = rd
               /\ seen' = <<mcp_functions_cache>>
               /\ UNCHANGED chat_request
          ELSE IF ~resumed /\ ConvertIsAwaited
          THEN /\ request_data' = rd
               /\ seen' = <<mcp_functions_cache>>
               /\ pc' = "converted"
               /\ UNCHANGED <<chat_request, client>>
          ELSE /\ request_data' = rd
               /\ chat_request' = cr
               /\ seen' = (IF resumed THEN seen ELSE <<mcp_functions_cache>>)
                              \o <<mcp_functions_cache>>
               /\ IF IsStream(rd)
                  THEN /\ client' = [status |-> 200, body |-> "event_stream", carried |-> 0]
                       /\ pc' = "s_start"
                  ELSE /\ pc' = "post"
                       /\ UNCHANGED client
    /\ UNCHANGED <<config, mcp_functions_cache, endpoint, inbound, callVars,
                   streamVars, failure>>

\* `await client.post("/v1/chat/completions", json=chat_request, ...)`
CreateResponsePost ==
    /\ endpoint = "responses"
    /\ pc = "post"
    /\ sent' = chat_request
    /\ backend_calls' = backend_calls + 1
    /\ pc' = "await_post"
    /\ UNCHANGED <<config, mcp_functions_cache, endpoint, inbound, buildVars,
                   backend, client, streamVars, failure>>

NonStreamingRetry == "post"

\* The non-streaming `except Exception` raises HTTPException: the request ends.
AfterNonStreamingError == "done"

\* The status an HTTPStatusError's message names (0: the error has none).
CarriedStatus(r) == IF r.status \notin {0, 200} THEN r.status ELSE 0

\* The post returns or raises; raise_for_status, response.json() and the
\* translation of the response follow without suspension.  The translator
\* fails on a response without choices.  Every exception becomes
\* HTTPException(500), which the outer `except Exception` wraps again as 500.
CreateResponseNonStream ==
    /\ endpoint = "responses"
    /\ pc = "await_post"
    /\ \E r \in BackendResponses :
         /\ backend' = r
         /\ IF r.status = 200 /\ r.body = "choices"
            THEN /\ client' = [status |-> 200, body |-> "responses_json", carried |-> 0]
                 /\ pc' = "done"
                 /\ UNCHANGED failure
            ELSE /\ client' = HTTPException("Error processing request", CarriedStatus(r))
                 /\ pc' = AfterNonStreamingError
                 /\ failure' = (failure \/ r.status # 200)
    /\ UNCHANGED <<config, mcp_functions_cache, endpoint, inbound, buildVars,
                   sent, backend_calls, streamVars>>

\* ------------------------------------------------ POST /v1/chat/completions
StripNullReasoning(b) ==
    [b EXCEPT !.reasoning = IF b.reasoning = "allnull" THEN "absent" ELSE b.reasoning]

\* current_request_data of _handle_non_streaming_request
NonStreamingBody(rd) == [StripNullReasoning(rd) EXCEPT !.stream = "absent"]

\* stream_request_data of _handle_streaming_request
StreamingBody(rd) == [StripNullReasoning(rd) EXCEPT !.stream = "true"]

\* From the return of `await request.json()` (outside any try: a parse failure
\* is the framework's 500) through tool injection to the choice of the path.
HandleChatCompletions ==
    /\ endpoint = "chat"
    /\ pc = "received"
    /\ IF ~inbound.body_ok
       THEN /\ client' = [status |-> 500, body |-> "Internal Server Error", carried |-> 0]
            /\ pc' = "done"
            /\ UNCHANGED buildVars
       ELSE LET rd == ChatInjectTools(inbound, mcp_functions_cache)
            IN /\ request_data' = rd
               /\ seen' = <<mcp_functions_cache>>
               /\ UNCHANGED chat_request
               /\ IF IsStream(rd)
                  THEN /\ client' = [status |-> 200, body |-> "event_stream", carried |-> 0]
                       /\ pc' = "s_start"
                  ELSE /\ pc' = "post"
                       /\ UNCHANGED client
    /\ UNCHANGED <<config, mcp_functions_cache, endpoint, inbound, callVars,
                   streamVars, failure>>

\* _handle_non_streaming_request up to `await client.post(...)`
ChatPost ==
    /\ endpoint = "chat"
    /\ pc = "post"
    /\ sent' = NonStreamingBody(request_data)
    /\ backend_calls' = backend_calls + 1
    /\ pc' = "await_post"
    /\ UNCHANGED <<config, mcp_functions_cache, endpoint, inbound, buildVars,
                   backend, client, streamVars, failure>>

\* The post returns or raises.  raise_for_status, response.json() and
\* `response_data.get("choices", [])[0]` may raise; the handler then returns
\* {"error": str(e)}, which the framework sends with status 200, as it does
\* the response data.
ChatNonStream ==
    /\ endpoint = "chat"
    /\ pc = "await_post"
    /\ \E r \in BackendResponses :
         /\ backend' = r
         /\ IF r.status = 200 /\ r.body = "choices"
            THEN /\ client' = [status |-> 200, body |-> r.body, carried |-> 0]
                 /\ UNCHANGED failure
            ELSE /\ client' = [status |-> 200, body |-> "error", carried |-> CarriedStatus(r)]
                 /\ failure' = (failure \/ r.status # 200)
    /\ pc' = "done"
    /\ UNCHANGED <<config, mcp_functions_cache, endpoint, inbound, buildVars,
                   sent, backend_calls, streamVars>>


\* ---------------------------------------------------------------- streaming
StreamPcs == {"s_start", "s_connect", "s_aread", "s_body", "s_close", "s_close_exc"}

ExceptCatchesAll(e) == TRUE

\* `except Exception`: CancelledError and GeneratorExit are BaseExceptions.
ExceptCatches(e) == e = "Exception"

\* `except Exception as e: yield error frame` of stream_response/stream_proxy
OnException(fr, e) == IF ExceptCatches(e) THEN Append(fr, Frame("error", e)) ELSE fr

\* The generator is first pulled: get_client, then client.stream(...) is
\* entered and the request goes out.
StreamStart ==
    /\ endpoint = "responses"
    /\ pc = "s_start"
    /\ ~disconnected
    /\ sent' = chat_request
    /\ backend_calls' = backend_calls + 1
    /\ pc' = "s_connect"
    /\ UNCHANGED <<config, mcp_functions_cache, endpoint, inbound, buildVars,
                   backend, client, streamVars, failure>>

\* The response headers arrive, or the connection fails and the exception
\* reaches `except Exception` with no stream to close.
StreamHeaders ==
    /\ endpoint = "responses"
    /\ pc = "s_connect"
    /\ ~disconnected
    /\ \E st \in {0, 200, 503} :
         IF st = 0
         THEN /\ frames' = OnException(frames, "Exception")
              /\ failure' = TRUE
              /\ pc' = "done"
              /\ UNCHANGED <<backend, conn>>
         ELSE /\ backend' = [status |-> st, body |-> "stream"]
              /\ conn' = "open"
              /\ failure' = (st # 200)
              /\ pc' = IF st # 200 THEN "s_aread" ELSE "s_body"
              /\ UNCHANGED frames
    /\ UNCHANGED <<config, mcp_functions_cache, endpoint, inbound, buildVars,
                   sent, backend_calls, client, chunks, disconnected>>

\* status != 200: `await response.aread()`, then the error frame and `return`,
\* which leaves the `async with`; aread raising leaves it with an exception.
StreamAread ==
    /\ endpoint = "responses"
    /\ pc = "s_aread"
    /\ ~disconnected
    /\ \E ok \in BOOLEAN :
         IF ok
         THEN /\ frames' = Append(frames, Frame("error", "Error from LLM API"))
              /\ pc' = "s_close"
         ELSE /\ pc' = "s_close_exc"
              /\ UNCHANGED frames
    /\ UNCHANGED <<config, mcp_functions_cache, endpoint, inbound, buildVars,
                   callVars, client, conn, chunks, disconnected, failure>>

\* The reconstructor's first frame is the "started" event.
Started(fr) == IF fr = <<>> THEN <<Frame("started", "")>> ELSE fr

\* process_chat_completions_stream consumes one backend chunk: a delta, the
\* terminal chunk, or a transport/parse failure, on which it emits one error
\* event and ends.
StreamChunk ==
    /\ endpoint = "responses"
    /\ pc = "s_body"
    /\ ~disconnected
    /\ \E kind \in {"delta", "finish", "fail"} :
         /\ kind = "delta" => chunks < MaxChunks
         /\ chunks' = IF kind = "fail" THEN chunks ELSE chunks + 1
         /\ frames' = IF kind = "delta"
                        THEN Append(Started(frames), Frame("text_delta", ""))
                      ELSE IF kind = "finish"
                        THEN Append(Started(frames), Frame("completed", ""))
                      ELSE Append(frames, Frame("error", "stream failure"))
         /\ failure' = (failure \/ kind = "fail")
         /\ pc' = IF kind = "delta" THEN "s_body" ELSE "s_close"
    /\ UNCHANGED <<config, mcp_functions_cache, endpoint, inbound, buildVars,
                   callVars, client, conn, disconnected>>

\* Leaving `async with client.stream(...)`: the response is closed.  A failure
\* of the close, or the exception that left the block, reaches
\* `except Exception`, which yields an error frame.
StreamClose ==
    /\ endpoint = "responses"
    /\ pc \in {"s_close", "s_close_exc"}
    /\ ~disconnected
    /\ \E ok \in BOOLEAN :
         /\ conn' = "closed"
         /\ frames' = IF pc = "s_close_exc" \/ ~ok
                      THEN OnException(frames, "Exception") ELSE frames
         /\ failure' = (failure \/ ~ok \/ pc = "s_close_exc")
    /\ pc' = "done"
    /\ UNCHANGED <<config, mcp_functions_cache, endpoint, inbound, buildVars,
                   callVars, client, chunks, disconnected>>

\* stream_proxy of /v1/chat/completions: the same, with no status check and
\* the backend's bytes forwarded as they are.
StreamProxyStart ==
    /\ endpoint = "chat"
    /\ pc = "s_start"
    /\ ~disconnected
    /\ sent' = StreamingBody(request_data)
    /\ backend_calls' = backend_calls + 1
    /\ pc' = "s_connect"
    /\ UNCHANGED <<config, mcp_functions_cache, endpoint, inbound, buildVars,
                   backend, client, streamVars, failure>>

StreamProxyHeaders ==
    /\ endpoint = "chat"
    /\ pc = "s_connect"
    /\ ~disconnected
    /\ \E st \in {0, 200, 503} :
         IF st = 0
         THEN /\ frames' = OnException(frames, "Exception")
              /\ failure' = TRUE
              /\ pc' = "done"
              /\ UNCHANGED <<backend, conn>>
         ELSE /\ backend' = [status |-> st, body |-> "stream"]
              /\ conn' = "open"
              /\ failure' = (st # 200)
              /\ pc' = "s_body"
              /\ UNCHANGED frames
    /\ UNCHANGED <<config, mcp_functions_cache, endpoint, inbound, buildVars,
                   sent, backend_calls, client, chunks, disconnected>>

\* `async for chunk in stream_response.aiter_bytes(): yield chunk`
StreamProxyChunk ==
    /\ endpoint = "chat"
    /\ pc = "s_body"
    /\ ~disconnected
    /\ \E kind \in {"chunk", "end", "fail"} :
         /\ kind = "chunk" => chunks < MaxChunks
         /\ chunks' = IF kind = "chunk" THEN chunks + 1 ELSE chunks
         /\ frames' = IF kind = "chunk" THEN Append(frames, Frame("chunk", ""))
                      ELSE frames
         /\ failure' = (failure \/ kind = "fail")
         /\ pc' = IF kind = "chunk" THEN "s_body"
                  ELSE IF kind = "end" THEN "s_close" ELSE "s_close_exc"
    /\ UNCHANGED <<config, mcp_functions_cache, endpoint, inbound, buildVars,
                   callVars, client, conn, disconnected>>

StreamProxyClose ==
    /\ endpoint = "chat"
    /\ pc \in {"s_close", "s_close_exc"}
    /\ ~disconnected
    /\ \E ok \in BOOLEAN :
         /\ conn' = "closed"
         /\ frames' = IF pc = "s_close_exc" \/ ~ok
                      THEN OnException(frames, "Exception") ELSE frames
         /\ failure' = (failure \/ ~ok \/ pc = "s_close_exc")
    /\ pc' = "done"
    /\ UNCHANGED <<config, mcp_functions_cache, endpoint, inbound, buildVars,
                   callVars, client, chunks, disconnected>>

\* The client goes away while the streaming response is in flight: the server
\* cancels the task that drives the generator.
ClientDisconnect ==
    /\ pc \in StreamPcs
    /\ ~disconnected
    /\ disconnected' = TRUE
    /\ UNCHANGED <<config, mcp_functions_cache, endpoint, pc, inbound, buildVars,
                   callVars, client, frames, conn, chunks, failure>>

\* The cancellation is raised at the generator's suspension point and unwinds
\* it: an open stream is closed by the `async with`, and `except Exception`
\* is passed unless the close itself raised.
StreamCancel ==
    /\ pc \in StreamPcs
    /\ disconnected
    /\ \E ok \in BOOLEAN :
         /\ conn = "open" \/ ok
         /\ conn' = IF conn = "open" THEN "closed" ELSE conn
         /\ frames' = OnException(frames, IF ok THEN "CancelledError" ELSE "Exception")
    /\ pc' = "cancelled"
    /\ UNCHANGED <<config, mcp_functions_cache, endpoint, inbound, buildVars,
                   callVars, client, chunks, disconnected, failure>>

\* The request is over; the slot takes the next one.
Complete ==
    /\ pc \in {"done", "cancelled"}
    /\ endpoint' = "none"
    /\ pc' = "idle"
    /\ inbound' = NoBody
    /\ request_data' = NoBody
    /\ chat_request' = NoBody
    /\ seen' = <<>>
    /\ sent' = NoBody
    /\ backend_calls' = 0
    /\ backend' = NoBackend
    /\ client' = NoClient
    /\ frames' = <<>>
    /\ conn' = "none"
    /\ chunks' = 0
    /\ failure' = FALSE
    /\ disconnected' = FALSE
    /\ UNCHANGED <<config, mcp_functions_cache>>

Next ==
    \/ RefreshPublish
    \/ Receive
    \/ CreateResponseBuild
    \/ CreateResponsePost
    \/ CreateResponseNonStream
    \/ HandleChatCompletions
    \/ ChatPost
    \/ ChatNonStream
    \/ StreamStart
    \/ StreamHeaders
    \/ StreamAread
    \/ StreamChunk
    \/ StreamClose
    \/ StreamProxyStart
    \/ StreamProxyHeaders
    \/ StreamProxyChunk
    \/ StreamProxyClose
    \/ ClientDisconnect
    \/ StreamCancel
    \/ Complete

Spec == Init /\ [][Next]_vars

\* The event loop runs a cancelled task: the unwinding is not postponed forever.
FairSpec == Spec /\ WF_vars(StreamCancel)


\* ==================================================================== claims
IsPrefix(s, t) == Len(s) <= Len(t) /\ \A i \in DOMAIN s : t[i] = s[i]

ErrorFrames(fr) == {i \in DOMAIN fr : fr[i].type = "error"}

\* C1: the tool list sent to the backend, on either endpoint, holds no two
\* entries of the same name, and an entry whose name the client declared is the
\* client's definition.
C1_MergedToolsUniqueClientWins ==
    backend_calls > 0 =>
        /\ \A i, j \in DOMAIN sent.tools :
               i # j => sent.tools[i].name # sent.tools[j].name
        /\ \A i \in DOMAIN sent.tools :
               sent.tools[i].name \in NamesOf(inbound.tools)
                   => sent.tools[i].origin = "client"

\* C2: a streaming /responses request that met a backend failure (non-success
\* status, transport or parse failure, failure of aread or of the close) ends
\* with exactly one error frame, and that frame is the last one.
C2_ExactlyOneTerminalErrorFrame ==
    (endpoint = "responses" /\ pc = "done" /\ IsStream(inbound) /\ failure) =>
        /\ Cardinality(ErrorFrames(frames)) = 1
        /\ frames[Len(frames)].type = "error"

\* C3: every read of the registry cache made while one request's tool list is
\* built sees the same published snapshot, whatever the refresh does meanwhile:
\* the registry names in the built list are those of that one snapshot.
C3_OneSnapshotPerBuild ==
    /\ \A i \in DOMAIN seen : seen[i] \in Snapshots /\ seen[i] = seen[1]
    /\ (ENABLE_MCP_TOOLS /\ endpoint = "responses" /\ Len(seen) = 2) =>
           NamesOf(chat_request.tools) = NamesOf(inbound.tools) \cup Range(seen[1])
    /\ (ENABLE_MCP_TOOLS /\ endpoint = "chat" /\ Len(seen) = 1) =>
           NamesOf(request_data.tools) = NamesOf(inbound.tools) \cup Range(seen[1])

\* C3 witness: a /responses tool list was built from a non-empty snapshot and
\* the refresh has published another snapshot around it.
C3_Witness ==
    /\ endpoint = "responses" /\ ENABLE_MCP_TOOLS /\ Len(seen) = 2
    /\ seen[1] # <<>> /\ mcp_functions_cache # seen[1]
    /\ \E i \in DOMAIN chat_request.tools : chat_request.tools[i].origin = "mcp"

\* C4: once the client has disconnected from a streaming response, no further
\* backend chunk is consumed, no error frame is produced for the cancellation,
\* and the backend stream is eventually closed.
C4_DisconnectAbortsBackendStream ==
    /\ [][(disconnected /\ disconnected') =>
              /\ chunks' = chunks
              /\ backend_calls' = backend_calls
              /\ \A i \in DOMAIN frames' : frames'[i].message # "CancelledError"]_vars
    /\ (disconnected ~> conn # "open")

\* C4 witness: a stream was cancelled after a chunk and before its end; the
\* backend stream is closed and no error frame was produced.
C4_Witness ==
    /\ pc = "cancelled" /\ disconnected /\ conn = "closed" /\ chunks = 1
    /\ ErrorFrames(frames) = {}
    /\ frames[Len(frames)].type \in {"text_delta", "chunk"}

\* C5: a non-streaming request whose backend call met a non-success status or
\* an unreachable backend gets a server-side error status, carrying the
\* backend's status when there is one.
C5_UpstreamErrorIsServerError ==
    (pc = "done" /\ inbound.body_ok /\ ~IsStream(inbound) /\ backend_calls > 0
        /\ backend.status # 200) =>
        /\ client.status >= 500
        /\ backend.status # 0 => client.carried = backend.status

\* C6: a malformed or incomplete request to /responses gets a client error
\* (4xx), and no backend call is made for it.
C6_ValidationErrorIsClientError ==
    (endpoint = "responses" /\ pc = "done" /\ (~inbound.body_ok \/ ~inbound.model)) =>
        /\ client.status \in 400..499
        /\ backend_calls = 0

\* C7: at most one backend call is issued per request, whatever its outcome.
C7_AtMostOneBackendCall == backend_calls <= 1

\* C7 witness: a request ended on a backend failure after its single call.
C7_Witness == pc = "done" /\ failure /\ backend_calls = 1

\* C8: on /responses a backend request with an empty tool list carries no
\* tool_choice.
C8_NoToolChoiceWithoutTools ==
    (endpoint = "responses" /\ backend_calls > 0 /\ sent.tools = <<>>) =>
        sent.tool_choice = "absent"

\* C8 witness: the client sent tool_choice and the merged tool list is empty.
C8_Witness ==
    /\ endpoint = "responses" /\ backend_calls > 0 /\ sent.tools = <<>>
    /\ inbound.tool_choice = "auto"

\* C9: with ENABLE_MCP_TOOLS off, the tool list sent is the client's own (in
\* the backend's shape) and a request without "tools" gains none.
C9_FlagOffInjectsNothing ==
    (~ENABLE_MCP_TOOLS /\ backend_calls > 0) =>
        /\ sent.tools = [i \in DOMAIN inbound.tools |->
                            Entry(inbound.tools[i].name, "client", "nested")]
        /\ ~inbound.has_tools => ~sent.has_tools

\* C9 witness: the flag is off, the registry has tools, and a request went out.
C9_Witness ==
    /\ ~ENABLE_MCP_TOOLS /\ backend_calls > 0 /\ mcp_functions_cache # <<>>
    /\ seen # <<>> /\ seen[1] # <<>>

\* C10: /v1/chat/completions forwards every field but tools, stream and an
\* all-null reasoning as it came, the client's tools first and unchanged, and
\* returns a successful non-streaming backend response unchanged.
C10_ChatPassThrough ==
    (endpoint = "chat" /\ backend_calls > 0) =>
        /\ sent.model = inbound.model
        /\ sent.tool_choice = inbound.tool_choice
        /\ sent.functions = inbound.functions
        /\ inbound.reasoning # "allnull" => sent.reasoning = inbound.reasoning
        /\ IsPrefix(inbound.tools, sent.tools)
        /\ (pc = "done" /\ ~IsStream(inbound) /\ backend.status = 200
               /\ backend.body \in {"choices", "nochoices"})
              => (client.status = 200 /\ client.body = backend.body)

\* C11: on /responses no backend request carries tool_choice, also when the
\* merged tool list is non-empty and the client sent a tool_choice.
C11_ToolChoiceNeverSent ==
    (endpoint = "responses" /\ backend_calls > 0) => sent.tool_choice = "absent"

\* C11 witness: the client sent tool_choice, the request went out with tools.
C11_Witness ==
    /\ endpoint = "responses" /\ backend_calls > 0
    /\ inbound.tool_choice = "auto"
    /\ sent.has_tools /\ sent.tools # <<>>

====
